---- MODULE Spec2Model ----
(***************************************************************************)
(* servenix: a read-only HTTP server exposing a nix store as a binary      *)
(* cache (src/src/servenix/servenix.py).                                   *)
(*                                                                         *)
(* Strings are modelled as sequences of tokens (single characters for the  *)
(* hash part of a name, longer tokens where the code never looks inside).  *)
(* The store directory, the metadata database and the external tools are   *)
(* the environment; the two caches of NixServer and the dict objects they  *)
(* hold are the program state.  The operations are the request handlers    *)
(* make_app registers; each runs to completion in one action, the methods  *)
(* of NixServer it calls included.  `last` records what the latest request *)
(* did and returned.  A second specification, SpecConc, runs the two       *)
(* cached methods in worker threads, one access to the caches per step.    *)
(***************************************************************************)
EXTENDS Naturals, Sequences, FiniteSets

VARIABLES
    compression_type,   \* NixServer._compression_type
    store,              \* os.listdir(self._nix_store_path): the listing, in listing order
    db,                 \* ValidPaths table of db.sqlite: path column -> hash column
    _hashes_to_paths,   \* NixServer._hashes_to_paths
    _paths_to_info,     \* NixServer._paths_to_info: store path -> dict object
    heap,               \* the info dict objects created so far, by identity
    last,               \* the latest call: operation, argument, outcome, effects
    resolved,           \* hash -> path returned by the first successful resolve of it
    infoRet,            \* store path -> dict object returned by the first get_object_info
    workers             \* the worker threads: where each is in its call, and its locals

vars == <<compression_type, store, db, _hashes_to_paths, _paths_to_info, heap,
          last, resolved, infoRet, workers>>

-----------------------------------------------------------------------------
(* Bounds and program constants *)

\* the {32} of _HASH_REGEX and _PATH_REGEX
HashLen == 32

\* largest number of entries of the store directory
MaxStore == 2

\* largest number of paths in the body of a missing-paths request
MaxPaths == 2

\* number of worker threads serving requests at once
NumWorkers == 2

-----------------------------------------------------------------------------
(* Strings *)

\* the character class [a-z0-9]
LowerAlnum ==
    {"a","b","c","d","e","f","g","h","i","j","k","l","m","n","o","p","q","r",
     "s","t","u","v","w","x","y","z","0","1","2","3","4","5","6","7","8","9"}

\* a 32-character string made of the character c
H(c) == [i \in 1..HashLen |-> c]

\* dynamic function update: d[k] = v in Python
Put(d, k, v) == [x \in (DOMAIN d) \cup {k} |-> IF x = k THEN v ELSE d[x]]

\* the empty dict
EmptyDict == [x \in {} |-> x]

\* the absent path / string
NoPath == <<>>

\* _HASH_REGEX.match(s) is not None: re.match anchors at the start only
_HASH_REGEX(s) ==
    /\ Len(s) >= HashLen
    /\ \A i \in 1..HashLen : s[i] \in LowerAlnum

\* _PATH_REGEX.match(s) is not None
_PATH_REGEX(s) ==
    /\ Len(s) >= HashLen + 1
    /\ \A i \in 1..HashLen : s[i] \in LowerAlnum
    /\ s[HashLen + 1] = "-"

\* mutant: the group is one character short
Group1Short(s) == SubSeq(s, 1, HashLen - 1)

\* match.group(1) of a _PATH_REGEX match
Group1(s) == SubSeq(s, 1, HashLen)

\* os.path.join(a, b) for a relative b
join(a, b) == a \o <<"/">> \o b

\* os.path.basename of a path made by join
basename(p) == IF Len(p) >= 2 THEN SubSeq(p, 3, Len(p)) ELSE p

\* self._nix_store_path
_nix_store_path == <<"/nix/store">>

\* self._nar_extension, set in __init__ from the compression type
_nar_extension == IF compression_type = "bzip2" THEN ".nar.bz2" ELSE ".nar.xz"

-----------------------------------------------------------------------------
(* The environment: directory entries, request inputs *)

\* a store object name <hash>-<name>
Entry(c, n) == H(c) \o <<"-", n>>

\* the names the store directory may hold; ".links" is no store object
EntryNames == {Entry("a", "x"), Entry("a", "y"), Entry("b", "x"), <<".", "links">>}

\* the listings os.listdir may return: distinct names, any order
Listings ==
    {s \in UNION {[1..n -> EntryNames] : n \in 0..MaxStore} :
        \A i, j \in 1..Len(s) : i # j => s[i] # s[j]}

\* the hash segments a request may carry
ReqHashes ==
    {H("a"), H("b"), H("c"),
     [H("a") EXCEPT ![1] = "A"],
     SubSeq(H("a"), 1, HashLen - 1),
     H("a") \o <<"a">>}

\* a JSON string and a JSON number, as request.get_json() returns them
JsonStr(v) == [kind |-> "str", val |-> v]
JsonInt == [kind |-> "int", val |-> NoPath]

\* the store paths a missing-paths request may name
ReqPaths == {join(_nix_store_path, Entry("a", "x")), join(_nix_store_path, Entry("c", "x"))}

\* what request.get_json() may return for a missing-paths request: a list of
\* path strings, a list with a number in it, an object, or None for no body
ReqBodies ==
    {[kind |-> "list", items |-> [i \in 1..Len(ps) |-> JsonStr(ps[i])]] :
        ps \in UNION {[1..n -> ReqPaths] : n \in 0..MaxPaths}}
    \cup {[kind |-> "list", items |-> <<JsonInt>>],
          [kind |-> "list", items |-> <<JsonStr(join(_nix_store_path, Entry("a", "x"))), JsonInt>>],
          [kind |-> "dict", items |-> <<>>],
          [kind |-> "null", items |-> <<>>]}

\* the store paths of the objects in the listing
StorePaths(listing) ==
    {join(_nix_store_path, listing[i]) : i \in {j \in 1..Len(listing) : _PATH_REGEX(listing[j])}}

-----------------------------------------------------------------------------
(* Hash Index: NixServer.store_path_from_hash *)

\* mutant: a name that is no store object ends the pass (break for continue)
RECURSIVE ScanBreak(_, _, _, _)
ScanBreak(listing, i, index, store_object_hash) ==
    IF i > Len(listing)
    THEN [index |-> index, outcome |-> "NoSuchObject", path |-> NoPath,
          visited |-> Len(listing)]
    ELSE LET obj == listing[i] IN
         IF ~_PATH_REGEX(obj)
         THEN [index |-> index, outcome |-> "NoSuchObject", path |-> NoPath,
               visited |-> i]
         ELSE LET full_path == join(_nix_store_path, obj)
                  _hash == Group1(obj)
                  index2 == Put(index, _hash, full_path)
              IN IF _hash = store_object_hash
                 THEN [index |-> index2, outcome |-> "ok", path |-> full_path,
                       visited |-> i]
                 ELSE ScanBreak(listing, i + 1, index2, store_object_hash)

\* mutant: only the requested hash is recorded
RECURSIVE ScanOnlyRequested(_, _, _, _)
ScanOnlyRequested(listing, i, index, store_object_hash) ==
    IF i > Len(listing)
    THEN [index |-> index, outcome |-> "NoSuchObject", path |-> NoPath,
          visited |-> Len(listing)]
    ELSE LET obj == listing[i] IN
         IF ~_PATH_REGEX(obj)
         THEN ScanOnlyRequested(listing, i + 1, index, store_object_hash)
         ELSE LET full_path == join(_nix_store_path, obj)
                  _hash == Group1(obj)
              IN IF _hash = store_object_hash
                 THEN [index |-> Put(index, _hash, full_path), outcome |-> "ok",
                       path |-> full_path, visited |-> i]
                 ELSE ScanOnlyRequested(listing, i + 1, index, store_object_hash)

\* lines 64-74: the pass over the listing from entry i on
RECURSIVE Scan(_, _, _, _)
Scan(listing, i, index, store_object_hash) ==
    IF i > Len(listing)
    THEN [index |-> index, outcome |-> "NoSuchObject", path |-> NoPath,
          visited |-> Len(listing)]
    ELSE LET obj == listing[i] IN
         IF ~_PATH_REGEX(obj)
         THEN Scan(listing, i + 1, index, store_object_hash)
         ELSE LET full_path == join(_nix_store_path, obj)
                  _hash == Group1(obj)
                  index2 == Put(index, _hash, full_path)
              IN IF _hash = store_object_hash
                 THEN [index |-> index2, outcome |-> "ok", path |-> full_path,
                       visited |-> i]
                 ELSE Scan(listing, i + 1, index2, store_object_hash)

\* mutant: the cache is never consulted
IndexHitNever(index, store_object_hash) == FALSE

\* line 61: store_object_hash in self._hashes_to_paths
IndexHit(index, store_object_hash) == store_object_hash \in DOMAIN index

\* the whole method: result, new index, and what it did
store_path_from_hash(index, listing, store_object_hash) ==
    IF IndexHit(index, store_object_hash)
    THEN [index |-> index, outcome |-> "ok", path |-> index[store_object_hash],
          visited |-> 0, scans |-> 0, lookups |-> 1, hit |-> TRUE]
    ELSE LET r == Scan(listing, 1, index, store_object_hash)
         IN [index |-> r.index, outcome |-> r.outcome, path |-> r.path,
             visited |-> r.visited, scans |-> 1, lookups |-> 1, hit |-> FALSE]

-----------------------------------------------------------------------------
(* The environment: external tools and the metadata database *)

\* the digest nix-hash computes from the contents of a store object
ContentDigest(store_path) == "d1"

\* what the nix-build of the nar expression may leave in its output directory
NarFile(ext) == <<"archive", ext>>
BuildDirs ==
    {<<<<"log">>>>,
     <<<<"log">>, NarFile(".nar.xz")>>,
     <<NarFile(".nar.bz2"), <<"log">>>>,
     <<NarFile(".nar.bz2"), NarFile(".nar.xz")>>}

\* the external command that may fail during one get_object_info
ExtFailures == {"none", "nix-build", "nix-hash", "nix-store --size"}

\* the inputs of one request that the environment decides: what the build
\* leaves, which command fails, whether sqlite can run the UPDATE
Envs ==
    {e \in [dir : BuildDirs, fail : ExtFailures, updOk : BOOLEAN] :
        (e.fail # "none" \/ ~e.updOk) =>
            /\ e.dir = <<NarFile(".nar.bz2"), NarFile(".nar.xz")>>
            /\ (e.fail = "none" \/ e.updOk)}

\* the inputs a request that only builds the archive depends on
BuildEnvs == {e \in Envs : e.updOk /\ e.fail \in {"none", "nix-build"}}

\* the digest the ValidPaths row of a store object holds when the server starts
RegisteredDigest(entry) == IF entry = Entry("a", "x") THEN "d1" ELSE "d2"

\* servenix.utils.strip_output: the command's output, or its failure raised
strip_output(failed, out) ==
    IF failed THEN [outcome |-> "ExternalFailure", out |-> NoPath]
    ELSE [outcome |-> "ok", out |-> out]

\* nix-store --query --hash: the registered hash, printed in base 32
nix_store_q_hash(database, store_path) ==
    IF store_path \in DOMAIN database
    THEN <<"sha256:", "base32", database[store_path][Len(database[store_path])]>>
    ELSE NoPath

\* nix-store --query --references
nix_store_q_references(store_path) ==
    IF store_path[Len(store_path)] = "y"
    THEN <<join(_nix_store_path, Entry("c", "dep"))>>
    ELSE <<>>

\* nix-store --query --deriver
nix_store_q_deriver(store_path) ==
    IF store_path[3] = "a"
    THEN join(_nix_store_path, Entry("d", "x.drv"))
    ELSE <<"unknown-deriver">>

\* lines 113-116: the UPDATE statement as sqlite runs it on ValidPaths
SqlUpdate(database, store_path, full_hash) ==
    [k \in DOMAIN database |->
        IF k = <<"sha256:">> \o store_path THEN full_hash ELSE database[k]]

-----------------------------------------------------------------------------
(* Archive Builder: NixServer.build_nar *)

\* mutant: any file of the output directory is taken for the archive
endswithAny(filename, ext) == Len(filename) > 0

\* line 155: filename.endswith(self._nar_extension)
endswith(filename, ext) == Len(filename) > 0 /\ filename[Len(filename)] = ext

\* lines 153-157: the first file of the output directory with the extension
RECURSIVE FindNar(_, _, _)
FindNar(contents, i, compressed_path) ==
    IF i > Len(contents)
    THEN [outcome |-> "NoNarGenerated", path |-> NoPath]
    ELSE IF endswith(contents[i], _nar_extension)
         THEN [outcome |-> "ok", path |-> join(compressed_path, contents[i])]
         ELSE FindNar(contents, i + 1, compressed_path)

\* the whole method: one nix-build, then the search of its output
build_nar(store_path, env) ==
    LET compressed_path == strip_output(env.fail = "nix-build", <<"/nix/store/nar-out">>)
    IN IF compressed_path.outcome # "ok"
       THEN [outcome |-> compressed_path.outcome, path |-> NoPath, builds |-> 1]
       ELSE LET f == FindNar(env.dir, 1, compressed_path.out)
            IN [outcome |-> f.outcome, path |-> f.path, builds |-> 1]

-----------------------------------------------------------------------------
(* Metadata Resolver: NixServer.get_object_info *)

\* mutant: the metadata cache is never consulted
InfoHitNever(cache, store_path) == FALSE

\* line 85: store_path in self._paths_to_info
InfoHit(cache, store_path) == store_path \in DOMAIN cache

\* mutant: the hashes are never found to differ
HashMismatchNever(correct_hash, registered_store_obj_hash) == FALSE

\* line 106: correct_hash != registered_store_obj_hash
HashMismatch(correct_hash, registered_store_obj_hash) ==
    correct_hash # registered_store_obj_hash

\* lines 118-119: what evaluating the raise statement raises; `path` is no
\* name of the method or the module, so the lookup fails before the call
RaiseCouldNotUpdateHash(store_path, registered_store_obj_hash, correct_hash) ==
    [outcome |-> "NameError", errArgs |-> <<>>]

\* " ".join(strs)
RECURSIVE JoinSpace(_)
JoinSpace(strs) ==
    IF Len(strs) = 0 THEN <<>>
    ELSE IF Len(strs) = 1 THEN strs[1]
    ELSE strs[1] \o <<" ">> \o JoinSpace(Tail(strs))

\* mutant: the sentinel is taken for a deriver
HasDeriverAlways(deriver) == TRUE

\* line 131: deriver != "unknown-deriver"
HasDeriver(deriver) == deriver # <<"unknown-deriver">>

\* lines 120-132: the info dict
MakeInfo(store_path, correct_hash) ==
    LET base == [k \in {"StorePath", "NarHash", "NarSize", "FileSize", "FileHash"} |->
                    CASE k = "StorePath" -> store_path
                      [] k = "NarHash" -> correct_hash
                      [] k = "NarSize" -> <<"narsize">>
                      [] k = "FileSize" -> <<"filesize">>
                      [] k = "FileHash" -> <<"sha256:", "base32", "filedigest">>]
        references == nix_store_q_references(store_path)
        withRefs == IF references # <<>>
                    THEN Put(base, "References",
                             JoinSpace([i \in 1..Len(references) |-> basename(references[i])]))
                    ELSE base
        deriver == nix_store_q_deriver(store_path)
    IN IF HasDeriver(deriver)
       THEN Put(withRefs, "Deriver", basename(deriver))
       ELSE withRefs

\* the counters of a call
Counts(builds, tools, queries, updates, registered, correct) ==
    [builds |-> builds, tools |-> tools, queries |-> queries, updates |-> updates,
     errArgs |-> <<>>, registered |-> registered, correct |-> correct,
     updFailed |-> FALSE]

\* the result of a call that ended in an exception
Raised(cache, objects, database, outcome, c) ==
    [cache |-> cache, heap |-> objects, db |-> database, outcome |-> outcome,
     obj |-> 0, infoHit |-> FALSE, builds |-> c.builds, tools |-> c.tools,
     queries |-> c.queries, updates |-> c.updates, errArgs |-> c.errArgs,
     registered |-> c.registered, correct |-> c.correct,
     updFailed |-> c.updFailed]

\* mutant: the dict is cached before its NarSize query is made
AssembleCachesFirst(cache, objects, database, store_path, env, correct_hash, registered, tools, updates) ==
    IF env.fail = "nix-store --size"
    THEN [Raised(Put(cache, store_path, Len(objects) + 1),
                 Append(objects, [k \in {"StorePath"} |-> store_path]),
                 database, "ExternalFailure",
                 Counts(1, tools, 2, updates, registered, correct_hash))
             EXCEPT !.obj = 0]
    ELSE [cache |-> Put(cache, store_path, Len(objects) + 1),
          heap |-> Append(objects, MakeInfo(store_path, correct_hash)),
          db |-> database, outcome |-> "ok", obj |-> Len(objects) + 1,
          infoHit |-> FALSE, builds |-> 1, tools |-> tools, queries |-> 4,
          updates |-> updates, errArgs |-> <<>>,
          registered |-> registered, correct |-> correct_hash,
          updFailed |-> FALSE]

\* lines 120-134: assemble, cache and return the info dict
Assemble(cache, objects, database, store_path, env, correct_hash, registered, tools, updates) ==
    IF env.fail = "nix-store --size"
    THEN Raised(cache, objects, database, "ExternalFailure",
                Counts(1, tools, 2, updates, registered, correct_hash))
    ELSE [cache |-> Put(cache, store_path, Len(objects) + 1),
          heap |-> Append(objects, MakeInfo(store_path, correct_hash)),
          db |-> database, outcome |-> "ok", obj |-> Len(objects) + 1,
          infoHit |-> FALSE, builds |-> 1, tools |-> tools, queries |-> 4,
          updates |-> updates, errArgs |-> <<>>,
          registered |-> registered, correct |-> correct_hash,
          updFailed |-> FALSE]

\* lines 103-119: the integrity check and the corrective update
Repair(cache, objects, database, store_path, env) ==
    LET registered_store_obj_hash == nix_store_q_hash(database, store_path)
        correct_hash == <<"sha256:", "base32", ContentDigest(store_path)>>
        full_hash == <<"base16", ContentDigest(store_path)>>
    IN IF ~HashMismatch(correct_hash, registered_store_obj_hash)
       THEN Assemble(cache, objects, database, store_path, env, correct_hash,
                     registered_store_obj_hash, 3, 0)
       ELSE IF ~env.updOk
            THEN LET e == RaiseCouldNotUpdateHash(store_path, registered_store_obj_hash,
                                                  correct_hash)
                 IN Raised(cache, objects, database, e.outcome,
                           [Counts(1, 4, 1, 1, registered_store_obj_hash, correct_hash)
                               EXCEPT !.errArgs = e.errArgs, !.updFailed = TRUE])
            ELSE Assemble(cache, objects, SqlUpdate(database, store_path, full_hash),
                          store_path, env, correct_hash, registered_store_obj_hash, 4, 1)

\* lines 87-134: the method past its cache lookup
ComputeInfo(cache, objects, database, store_path, env) ==
    LET nar == build_nar(store_path, env) IN
    IF nar.outcome # "ok"
    THEN Raised(cache, objects, database, nar.outcome,
                Counts(1, 0, 0, 0, NoPath, NoPath))
    ELSE IF env.fail = "nix-hash"
         THEN Raised(cache, objects, database, "ExternalFailure",
                     Counts(1, 2, 0, 0, NoPath, NoPath))
         ELSE Repair(cache, objects, database, store_path, env)

\* the whole method
get_object_info(cache, objects, database, store_path, env) ==
    IF InfoHit(cache, store_path)
    THEN [cache |-> cache, heap |-> objects, db |-> database, outcome |-> "ok",
          obj |-> cache[store_path], infoHit |-> TRUE, builds |-> 0, tools |-> 0,
          queries |-> 0, updates |-> 0, errArgs |-> <<>>,
          registered |-> NoPath, correct |-> NoPath, updFailed |-> FALSE]
    ELSE ComputeInfo(cache, objects, database, store_path, env)

-----------------------------------------------------------------------------
(* The record of the latest request *)

NoCall ==
    [op |-> "none", arg |-> NoPath, outcome |-> "ok", status |-> 0,
     path |-> NoPath, nar |-> NoPath, obj |-> 0, hit |-> FALSE, infoHit |-> FALSE,
     scans |-> 0, visited |-> 0, lookups |-> 0, infoCalls |-> 0, builds |-> 0,
     tools |-> 0, queries |-> 0, updates |-> 0, errArgs |-> <<>>,
     registered |-> NoPath, correct |-> NoPath, updFailed |-> FALSE,
     again |-> FALSE, infoAgain |-> FALSE, dir |-> NoPath,
     body |-> [kind |-> "none", items |-> <<>>], resp |-> <<>>,
     clientError |-> FALSE, doc |-> {}, info |-> EmptyDict,
     retry |-> FALSE]

\* remember the first successful answer for a key
First(hist, k, v, ok) == IF ok /\ k \notin DOMAIN hist THEN Put(hist, k, v) ELSE hist

\* the effects of a get_object_info result on the record of the request
WithInfo(call, g) ==
    [call EXCEPT !.outcome = g.outcome, !.obj = g.obj, !.infoHit = g.infoHit,
                 !.infoCalls = 1,
                 !.builds = g.builds, !.tools = g.tools, !.queries = g.queries,
                 !.updates = g.updates, !.errArgs = g.errArgs,
                 !.registered = g.registered, !.correct = g.correct,
                 !.updFailed = g.updFailed]

\* the effects of a store_path_from_hash result on the record of the request
WithResolve(call, r) ==
    [call EXCEPT !.outcome = r.outcome, !.path = r.path, !.hit = r.hit,
                 !.scans = r.scans, !.visited = r.visited, !.lookups = r.lookups]

\* mutant: no except clause
CaughtNever(outcome) == FALSE

\* lines 190 and 213: except NoSuchObject
Caught(outcome) == outcome = "NoSuchObject"

\* the status of the response: 404 from the except clause, Flask's 500 for an
\* exception no handler caught, 200 otherwise
StatusOf(outcome) ==
    IF outcome = "ok" THEN 200
    ELSE IF Caught(outcome) THEN 404
    ELSE 500

-----------------------------------------------------------------------------
(* Worker threads *)

Workers == 1..NumWorkers

\* a worker between requests
Idle ==
    [pc |-> "idle", hash |-> NoPath, i |-> 0, path |-> NoPath, obj |-> 0,
     outcome |-> "ok"]

\* the hashes of the requests served concurrently
WorkerHashes == {H("a"), H("b"), H("c")}

-----------------------------------------------------------------------------
(* Operations *)

Init ==
    /\ compression_type \in {"xz", "bzip2"}
    /\ store \in Listings
    /\ db = [p \in StorePaths(store) |-> <<"sha256:", "base16", RegisteredDigest(basename(p))>>]
    /\ _hashes_to_paths = EmptyDict
    /\ _paths_to_info = EmptyDict
    /\ heap = <<>>
    /\ last = NoCall
    /\ resolved = EmptyDict
    /\ infoRet = EmptyDict
    /\ workers = [w \in Workers |-> Idle]

\* lines 194-196: the two keys get_narinfo sets in the dict it was given
AddProtocolKeys(info, obj_hash) ==
    Put(Put(info, "URL", <<"nar/">> \o obj_hash \o <<_nar_extension>>),
        "Compression", <<compression_type>>)

\* lines 197-198: the lines "{}: {}".format(k, v) of the items of the dict;
\* the dict decides their order
Render(store_info) == {<<k, ": ">> \o store_info[k] : k \in DOMAIN store_info}

\* lines 187-200: get_narinfo once the hash has resolved to r.path
NarinfoResolved(call, r, env) ==
    LET g == get_object_info(_paths_to_info, heap, db, r.path, env) IN
    /\ _hashes_to_paths' = r.index
    /\ resolved' = First(resolved, call.arg, r.path, TRUE)
    /\ _paths_to_info' = g.cache
    /\ db' = g.db
    /\ infoRet' = First(infoRet, r.path, g.obj, g.outcome = "ok")
    /\ heap' = IF g.outcome = "ok"
               THEN [g.heap EXCEPT ![g.obj] = AddProtocolKeys(@, call.arg)]
               ELSE g.heap
    /\ last' = [WithInfo(WithResolve(call, r), g) EXCEPT
                   !.status = StatusOf(g.outcome),
                   !.info = IF g.outcome = "ok" THEN g.heap[g.obj] ELSE EmptyDict,
                   !.doc = IF g.outcome = "ok"
                           THEN Render(AddProtocolKeys(g.heap[g.obj], call.arg))
                           ELSE {},
                   !.infoAgain = r.path \in DOMAIN infoRet,
                   !.retry = (last.infoCalls = 1 /\ last.outcome # "ok"
                                 /\ last.path = r.path),
                   !.dir = IF g.builds > 0 /\ env.fail # "nix-build"
                           THEN env.dir ELSE NoPath]
    /\ UNCHANGED <<compression_type, store, workers>>

\* lines 172-200: GET /<obj_hash>.narinfo
GetNarinfo(obj_hash) ==
    LET call == [NoCall EXCEPT !.op = "get_narinfo", !.arg = obj_hash,
                               !.again = obj_hash \in DOMAIN resolved]
        r == store_path_from_hash(_hashes_to_paths, store, obj_hash)
    IN
    IF ~_HASH_REGEX(obj_hash)
    THEN /\ last' = [call EXCEPT !.outcome = "BadRequest", !.status = 400]
         /\ UNCHANGED <<compression_type, store, db, _hashes_to_paths,
                        _paths_to_info, heap, resolved, infoRet, workers>>
    ELSE IF r.outcome = "NoSuchObject"
    THEN /\ _hashes_to_paths' = r.index
         /\ last' = [WithResolve(call, r) EXCEPT !.status = StatusOf(r.outcome)]
         /\ UNCHANGED <<compression_type, store, db, _paths_to_info, heap,
                        resolved, infoRet, workers>>
    ELSE \E env \in IF InfoHit(_paths_to_info, r.path) THEN BuildEnvs ELSE Envs :
            NarinfoResolved(call, r, env)

\* lines 202-216: GET /nar/<obj_hash><nar_extension>
ServeNar(obj_hash) ==
    LET call == [NoCall EXCEPT !.op = "serve_nar", !.arg = obj_hash,
                               !.again = obj_hash \in DOMAIN resolved]
        r == store_path_from_hash(_hashes_to_paths, store, obj_hash)
    IN
    /\ _hashes_to_paths' = r.index
    /\ resolved' = First(resolved, obj_hash, r.path, r.outcome = "ok")
    /\ IF r.outcome = "NoSuchObject"
       THEN last' = [WithResolve(call, r) EXCEPT !.status = StatusOf(r.outcome)]
       ELSE \E env \in BuildEnvs :
               LET b == build_nar(r.path, env) IN
               last' = [WithResolve(call, r) EXCEPT
                           !.outcome = b.outcome, !.builds = b.builds, !.nar = b.path,
                           !.status = StatusOf(b.outcome),
                           !.dir = IF env.fail # "nix-build" THEN env.dir ELSE NoPath]
    /\ UNCHANGED <<compression_type, store, db, _paths_to_info, heap, infoRet,
                   workers>>

\* line 229: all() called with two arguments raises TypeError before it
\* looks at either
all_strings(paths) == [outcome |-> "TypeError", value |-> FALSE]

\* lines 234-238: the ClientError handler; jsonify is imported nowhere
\* (line 10), so the handler itself fails and Flask answers 500
handle_invalid_usage(error) == [outcome |-> "NameError"]

\* lines 227-232: the body of get_missing_paths
get_missing_paths(paths) ==
    IF paths.kind # "list"
    THEN [outcome |-> handle_invalid_usage("ClientError").outcome,
          clientError |-> TRUE, resp |-> <<>>]
    ELSE LET a == all_strings(paths) IN
         IF a.outcome # "ok"
         THEN [outcome |-> a.outcome, clientError |-> FALSE, resp |-> <<>>]
         ELSE IF ~a.value
              THEN [outcome |-> handle_invalid_usage("ClientError").outcome,
                    clientError |-> TRUE, resp |-> <<>>]
              ELSE [outcome |-> "NoResponse", clientError |-> FALSE, resp |-> <<>>]

\* lines 218-232: GET /get-missing-paths
GetMissingPaths(paths) ==
    LET m == get_missing_paths(paths) IN
    /\ last' = [NoCall EXCEPT !.op = "get_missing_paths", !.body = paths,
                              !.outcome = m.outcome, !.status = StatusOf(m.outcome),
                              !.clientError = m.clientError, !.resp = m.resp]
    /\ UNCHANGED <<compression_type, store, db, _hashes_to_paths, _paths_to_info,
                   heap, resolved, infoRet, workers>>

Next ==
    \/ \E h \in ReqHashes : GetNarinfo(h)
    \/ \E h \in ReqHashes : ServeNar(h)
    \/ \E paths \in ReqBodies : GetMissingPaths(paths)

Spec == Init /\ [][Next]_vars

-----------------------------------------------------------------------------
(* The same methods run by concurrent workers.  A step is one access to the  *)
(* shared caches: the lookup of line 61, one iteration of the loop of lines  *)
(* 64-72, the lookup of line 85, and lines 87-134, whose commands depend on  *)
(* the store path alone and whose one access to the caches is line 133.      *)

\* a request for the hash h reaches the worker w
Receive(w, h) ==
    /\ workers[w].pc \in {"idle", "done"}
    /\ workers' = [workers EXCEPT ![w] = [Idle EXCEPT !.pc = "lookup", !.hash = h]]
    /\ UNCHANGED <<compression_type, store, db, _hashes_to_paths, _paths_to_info,
                   heap, last, resolved, infoRet>>

\* lines 61-63: the index lookup; on a miss the directory is listed
Lookup(w) ==
    /\ workers[w].pc = "lookup"
    /\ workers' = [workers EXCEPT ![w] =
                      IF IndexHit(_hashes_to_paths, workers[w].hash)
                      THEN [@ EXCEPT !.pc = "info",
                                     !.path = _hashes_to_paths[workers[w].hash]]
                      ELSE [@ EXCEPT !.pc = "scan", !.i = 1]]
    /\ UNCHANGED <<compression_type, store, db, _hashes_to_paths, _paths_to_info,
                   heap, last, resolved, infoRet>>

\* lines 64-74: one iteration of the loop, or the raise after it
ScanStep(w) ==
    LET me == workers[w]
        obj == store[me.i]
        full_path == join(_nix_store_path, obj)
        _hash == Group1(obj)
    IN
    /\ me.pc = "scan"
    /\ IF me.i > Len(store)
       THEN /\ workers' = [workers EXCEPT ![w] =
                              [@ EXCEPT !.pc = "done", !.outcome = "NoSuchObject"]]
            /\ UNCHANGED _hashes_to_paths
       ELSE IF ~_PATH_REGEX(obj)
       THEN /\ workers' = [workers EXCEPT ![w] = [@ EXCEPT !.i = @ + 1]]
            /\ UNCHANGED _hashes_to_paths
       ELSE /\ _hashes_to_paths' = Put(_hashes_to_paths, _hash, full_path)
            /\ workers' = [workers EXCEPT ![w] =
                              IF _hash = me.hash
                              THEN [@ EXCEPT !.pc = "info", !.path = full_path]
                              ELSE [@ EXCEPT !.i = @ + 1]]
    /\ UNCHANGED <<compression_type, store, db, _paths_to_info, heap, last,
                   resolved, infoRet>>

\* lines 85-86: the metadata cache lookup
InfoLookup(w) ==
    /\ workers[w].pc = "info"
    /\ workers' = [workers EXCEPT ![w] =
                      IF InfoHit(_paths_to_info, workers[w].path)
                      THEN [@ EXCEPT !.pc = "done",
                                     !.obj = _paths_to_info[workers[w].path]]
                      ELSE [@ EXCEPT !.pc = "compute"]]
    /\ UNCHANGED <<compression_type, store, db, _hashes_to_paths, _paths_to_info,
                   heap, last, resolved, infoRet>>

\* lines 87-134: the commands, the dict, its insertion and the return
StoreInfo(w) ==
    /\ workers[w].pc = "compute"
    /\ \E env \in Envs :
          LET g == ComputeInfo(_paths_to_info, heap, db, workers[w].path, env) IN
          /\ _paths_to_info' = g.cache
          /\ heap' = g.heap
          /\ db' = g.db
          /\ workers' = [workers EXCEPT ![w] =
                            [@ EXCEPT !.pc = "done", !.obj = g.obj,
                                      !.outcome = g.outcome]]
    /\ UNCHANGED <<compression_type, store, _hashes_to_paths, last, resolved,
                   infoRet>>

NextConc ==
    \E w \in Workers :
        \/ \E h \in WorkerHashes : Receive(w, h)
        \/ Lookup(w)
        \/ ScanStep(w)
        \/ InfoLookup(w)
        \/ StoreInfo(w)

SpecConc == Init /\ [][NextConc]_vars

-----------------------------------------------------------------------------
(* Properties *)

\* the entries of the listing whose hash prefix is h
Matching(h) == {i \in 1..Len(store) : _PATH_REGEX(store[i]) /\ Group1(store[i]) = h}

\* exactly 32 characters of [a-z0-9]
WellFormed(s) == Len(s) = HashLen /\ \A i \in 1..Len(s) : s[i] \in LowerAlnum

\* the latest request called store_path_from_hash
Resolving == last.lookups = 1

\* the latest request called get_object_info
Informing == last.infoCalls = 1

\* the output directory of the latest build holds no file with the extension
NoArchive ==
    /\ last.dir # NoPath
    /\ \A i \in 1..Len(last.dir) : last.dir[i][Len(last.dir[i])] # _nar_extension

\* C1 as stated: for every store directory entry <h>-<name>,
\* store_path_from_hash(h) returns that entry's full path, and every later call
\* for h returns the identical value without another directory scan.
C1_EveryEntryResolves ==
    Resolving =>
        \A i \in Matching(last.arg) :
            /\ last.path = join(_nix_store_path, store[i])
            /\ last.again => last.scans = 0 /\ last.path = resolved[last.arg]

\* C1 amended: for every store directory entry <h>-<name> whose hash prefix no
\* other entry shares, store_path_from_hash(h) returns that entry's full path
\* and every later call for h returns the identical value without another scan;
\* with a shared prefix a later call still scans nothing and returns the path of
\* one of the entries with that prefix.
C1_UniqueEntryResolves ==
    Resolving =>
        /\ \A i \in Matching(last.arg) :
              Cardinality(Matching(last.arg)) = 1 =>
                  /\ last.path = join(_nix_store_path, store[i])
                  /\ last.again => last.scans = 0 /\ last.path = resolved[last.arg]
        /\ last.again =>
              /\ last.scans = 0
              /\ \E i \in Matching(last.arg) : last.path = join(_nix_store_path, store[i])

\* C1 witness: a hash resolved before is resolved again, from the cache, after
\* the directory held other entries too
C1_Witness ==
    /\ Resolving /\ last.again /\ last.hit
    /\ Cardinality(Matching(last.arg)) = 1
    /\ Len(store) > 1
    /\ last.path = resolved[last.arg]

\* C2: store_path_from_hash for a hash that matches no entry scans the
\* directory exactly once, in one pass over the whole listing, and fails with
\* NoSuchObject.
C2_MissScansOnce ==
    (Resolving /\ Matching(last.arg) = {}) =>
        /\ last.outcome = "NoSuchObject"
        /\ last.path = NoPath
        /\ last.scans = 1
        /\ last.visited = Len(store)

\* C2 witness: a miss on a directory of several entries
C2_Witness ==
    /\ Resolving /\ Matching(last.arg) = {}
    /\ last.outcome = "NoSuchObject" /\ last.scans = 1
    /\ Len(store) > 1 /\ last.visited = Len(store)

C4_RepairOnce ==
    (Informing /\ last.correct # NoPath) =>
        /\ last.correct = <<"sha256:", "base32", ContentDigest(last.path)>>
        /\ (last.registered # last.correct) => last.updates = 1
        /\ (last.registered = last.correct) => last.updates = 0
        /\ last.outcome = "ok" => heap[last.obj]["NarHash"] = last.correct

\* C4 witness: a mismatch answered with a record
C4_Witness ==
    /\ Informing /\ last.outcome = "ok" /\ ~last.infoHit
    /\ last.registered # last.correct
    /\ last.updates = 1
    /\ heap[last.obj]["NarHash"] = last.correct

\* C5: when the corrective update fails, get_object_info fails with
\* CouldNotUpdateHash carrying the store path, the registered hash and the
\* recomputed hash.
C5_UpdateFailureReported ==
    (Informing /\ last.updFailed) =>
        /\ last.outcome = "CouldNotUpdateHash"
        /\ last.errArgs = <<last.path, last.registered, last.correct>>

\* C6: after get_object_info succeeded for a store path whose registered hash
\* differed from the recomputed one, the metadata store's registered hash of
\* that path is the recomputed hash.
C6_SelfHealing ==
    (Informing /\ last.outcome = "ok" /\ ~last.infoHit
        /\ last.registered # last.correct) =>
        nix_store_q_hash(db, last.path) = last.correct

\* C7: serve_nar rejects every malformed hash segment with a client error
\* before any directory scan, index lookup or build.
C7_ServeNarValidates ==
    (last.op = "serve_nar" /\ ~WellFormed(last.arg)) =>
        /\ last.status = 400
        /\ last.lookups = 0 /\ last.scans = 0 /\ last.builds = 0

\* C8: get_narinfo answers 400 to every input that is not exactly 32
\* characters of [a-z0-9] without calling store_path_from_hash, and only
\* exactly matching inputs reach the index.
C8_NarinfoExactMatch ==
    last.op = "get_narinfo" =>
        IF WellFormed(last.arg)
        THEN last.lookups = 1
        ELSE last.status = 400 /\ last.lookups = 0 /\ last.scans = 0

\* C9: a well-formed hash that resolves to no store object is answered 404 by
\* get_narinfo and serve_nar, with no archive build and no metadata query.
C9_UnknownHashNotFound ==
    (last.op \in {"get_narinfo", "serve_nar"} /\ WellFormed(last.arg)
        /\ Matching(last.arg) = {}) =>
        /\ last.status = 404
        /\ last.infoCalls = 0
        /\ last.builds = 0 /\ last.tools = 0 /\ last.queries = 0 /\ last.updates = 0

\* C9 witness: an unknown well-formed hash, answered after a scan
C9_Witness ==
    /\ last.op \in {"get_narinfo", "serve_nar"} /\ WellFormed(last.arg)
    /\ Matching(last.arg) = {} /\ Len(store) > 0
    /\ last.scans = 1 /\ last.status = 404

\* C10: when the build output holds no file with the configured extension,
\* build_nar fails with NoNarGenerated after its one build, and serve_nar for a
\* resolvable hash answers with a server error, not 404.
C10_NoArchiveIsServerError ==
    NoArchive =>
        /\ last.outcome = "NoNarGenerated"
        /\ last.builds = 1
        /\ last.nar = NoPath
        /\ last.op = "serve_nar" =>
              last.path # NoPath /\ last.status >= 500 /\ last.status < 600

\* C10 witness: serve_nar of a resolvable hash whose build left no archive
C10_Witness ==
    /\ last.op = "serve_nar" /\ last.path # NoPath
    /\ NoArchive /\ Len(last.dir) > 0
    /\ last.outcome = "NoNarGenerated" /\ last.status = 500

\* the body is a JSON list of strings
ListOfStrings(b) ==
    b.kind = "list" /\ \A i \in 1..Len(b.items) : b.items[i].kind = "str"

\* the paths of a request body that name no object of the store, in request order
RECURSIVE Absent(_, _)
Absent(items, i) ==
    IF i > Len(items) THEN <<>>
    ELSE IF items[i].val \in StorePaths(store)
         THEN Absent(items, i + 1)
         ELSE <<items[i].val>> \o Absent(items, i + 1)

\* C11: get_missing_paths, given a JSON list of store-path strings, answers
\* with the list of exactly those request paths that are absent from the local
\* store, in request order.
C11_MissingPathsListed ==
    (last.op = "get_missing_paths" /\ ListOfStrings(last.body)) =>
        /\ last.status = 200
        /\ last.resp = Absent(last.body.items, 1)

\* C12: get_missing_paths answers every body that is not a JSON list of
\* strings with a client error, before any resolution, never a server error.
C12_MalformedBodyIsClientError ==
    (last.op = "get_missing_paths" /\ ~ListOfStrings(last.body)) =>
        /\ last.status >= 400 /\ last.status < 500
        /\ last.lookups = 0 /\ last.scans = 0

\* the narinfo document has a line for the key k
HasLine(k) == \E l \in last.doc : l[1] = k

\* C13: for a resolvable object the narinfo document has a StorePath line with
\* the full store path, a URL line nar/<hash><extension of the configured
\* compression> and a Compression line; it has a References line iff the
\* references query reports a reference and a Deriver line iff the deriver
\* query does not answer with the no-deriver sentinel.
C13_NarinfoDocument ==
    (last.op = "get_narinfo" /\ last.status = 200) =>
        /\ <<"StorePath", ": ">> \o last.path \in last.doc
        /\ \E i \in 1..Len(store) : last.path = _nix_store_path \o <<"/">> \o store[i]
        /\ <<"URL", ": ", "nar/">> \o last.arg
               \o <<IF compression_type = "bzip2" THEN ".nar.bz2" ELSE ".nar.xz">>
               \in last.doc
        /\ <<"Compression", ": ", compression_type>> \in last.doc
        /\ HasLine("References") <=> nix_store_q_references(last.path) # <<>>
        /\ HasLine("Deriver") <=> nix_store_q_deriver(last.path) # <<"unknown-deriver">>
        /\ \A l1, l2 \in last.doc : l1[1] = l2[1] => l1 = l2

\* C13 witness: the document of an object with no reference and no deriver
C13_Witness ==
    /\ last.op = "get_narinfo" /\ last.status = 200
    /\ <<"StorePath", ": ">> \o last.path \in last.doc
    /\ HasLine("URL") /\ HasLine("Compression")
    /\ ~HasLine("References") /\ ~HasLine("Deriver")

\* C15: a metadata record, once computed and cached for a store path, is never
\* changed: the record the metadata cache holds for the path keeps the fields
\* and the values get_object_info computed, also after the narinfo handler has
\* built its response from it.
C15_CachedRecordImmutable ==
    (Informing /\ last.outcome = "ok" /\ ~last.infoHit) =>
        /\ last.path \in DOMAIN _paths_to_info
        /\ heap[_paths_to_info[last.path]] = last.info

\* C16: a directory scan never overwrites a Hash Index entry cached before the
\* scan began: every hash of the index maps, after any request, to the path it
\* mapped to before the request.
C16_ScanKeepsEntries ==
    [][\A k \in DOMAIN _hashes_to_paths :
          /\ k \in DOMAIN _hashes_to_paths'
          /\ _hashes_to_paths'[k] = _hashes_to_paths[k]]_vars

\* the store objects among the first n entries of the listing
Passed(n) == {i \in 1..n : _PATH_REGEX(store[i])}

\* the last of the first n entries of the listing with the hash of entry i
LastOf(n, i) ==
    CHOOSE j \in Passed(n) :
        /\ Group1(store[j]) = Group1(store[i])
        /\ \A k \in Passed(n) : Group1(store[k]) = Group1(store[i]) => k <= j

\* C17 as stated: on a cache miss the scan records the hash of every
\* hash-pattern entry of the listing, mapped to an entry with that hash,
\* whether or not the requested hash is found.
C17_ScanRecordsAll ==
    (Resolving /\ last.scans = 1) =>
        \A i \in Passed(Len(store)) :
            /\ Group1(store[i]) \in DOMAIN _hashes_to_paths
            /\ \E j \in Passed(Len(store)) :
                  /\ Group1(store[j]) = Group1(store[i])
                  /\ _hashes_to_paths[Group1(store[i])] = join(_nix_store_path, store[j])

\* C17 amended: on a cache miss the scan records the hash of every
\* hash-pattern entry it passes, that is of every such entry up to and
\* including the first one with the requested hash, and of all of them when
\* the requested hash is not found; each of these hashes maps to the last
\* passed entry with it, every other key of the index keeps its path, and the
\* entries that do not match the hash-prefix pattern are skipped without error.
C17_ScanRecordsPassed ==
    [][(last'.lookups = 1 /\ last'.scans = 1) =>
          LET n == last'.visited
              hashes == {Group1(store[i]) : i \in Passed(n)}
          IN /\ last'.path = NoPath => last'.outcome = "NoSuchObject" /\ n = Len(store)
             /\ last'.path # NoPath =>
                   /\ n \in Passed(n) /\ Group1(store[n]) = last'.arg
                   /\ \A i \in Passed(n - 1) : Group1(store[i]) # last'.arg
             /\ DOMAIN _hashes_to_paths' = DOMAIN _hashes_to_paths \cup hashes
             /\ \A i \in Passed(n) :
                   _hashes_to_paths'[Group1(store[i])]
                       = join(_nix_store_path, store[LastOf(n, i)])
             /\ \A k \in DOMAIN _hashes_to_paths \ hashes :
                   _hashes_to_paths'[k] = _hashes_to_paths[k]]_vars

\* C17 witness: a scan that found the requested hash at the second entry and
\* recorded the first entry too
C17_Witness ==
    /\ Resolving /\ last.scans = 1 /\ last.path # NoPath
    /\ last.visited = 2
    /\ Cardinality(DOMAIN _hashes_to_paths) = 2
    /\ \A i \in 1..2 : _hashes_to_paths[Group1(store[i])] = join(_nix_store_path, store[i])

\* the key k of the index is well formed and maps to a listed entry named k-...
IndexEntryOk(k) ==
    /\ Len(k) = HashLen
    /\ \A c \in 1..Len(k) : k[c] \in LowerAlnum
    /\ \E i \in 1..Len(store) :
          /\ _hashes_to_paths[k] = _nix_store_path \o <<"/">> \o store[i]
          /\ Len(store[i]) > HashLen
          /\ SubSeq(store[i], 1, HashLen + 1) = k \o <<"-">>

\* C18: in every reachable state every key of the Hash Index is exactly 32
\* characters of [a-z0-9] and its value is the store root joined with a listed
\* directory entry whose name begins with the key followed by '-'; and no
\* request removes a key.
C18_IndexInvariant ==
    /\ [](\A k \in DOMAIN _hashes_to_paths : IndexEntryOk(k))
    /\ [][DOMAIN _hashes_to_paths \subseteq DOMAIN _hashes_to_paths']_vars

\* C18 witness: an index of two entries, consulted again after it was built
C18_Witness ==
    /\ Cardinality(DOMAIN _hashes_to_paths) = 2
    /\ \A k \in DOMAIN _hashes_to_paths : IndexEntryOk(k)
    /\ Resolving /\ last.hit /\ last.again

\* C19: every store path that is a key of the metadata cache is, in the same
\* state, a value of the Hash Index.
C19_CacheLinkage ==
    \A p \in DOMAIN _paths_to_info :
        \E k \in DOMAIN _hashes_to_paths : _hashes_to_paths[k] = p

\* C20: a failed get_object_info leaves the metadata cache as it was, with no
\* entry, partial or complete, for the store path; and the next call for the
\* same path finds no cached answer and runs the resolution again: the build,
\* the queries, and the corrective update when the hashes still differ.
C20_FailureNotCached ==
    [][/\ (last'.infoCalls = 1 /\ last'.outcome # "ok") =>
             /\ _paths_to_info' = _paths_to_info
             /\ heap' = heap
             /\ last'.path \notin DOMAIN _paths_to_info'
       /\ (last.infoCalls = 1 /\ last.outcome # "ok"
              /\ last'.infoCalls = 1 /\ last'.path = last.path) =>
             /\ ~last'.infoHit
             /\ last'.builds = 1
             /\ last'.outcome = "ok" => last'.tools >= 3 /\ last'.queries = 4
             /\ (last'.correct # NoPath /\ last'.registered # last'.correct) =>
                   last'.updates = 1]_vars

\* C20 witness: the call after a failed one for the same path ran the whole
\* resolution, corrective update included, and its answer was cached
C20_Witness ==
    /\ Informing /\ last.retry
    /\ last.outcome = "ok" /\ ~last.infoHit
    /\ last.builds = 1 /\ last.updates = 1
    /\ last.path \in DOMAIN _paths_to_info

\* the worker w holds the path its store_path_from_hash returned
HasPath(w) == workers[w].path # NoPath

\* the worker w holds the dict its get_object_info returned
HasInfo(w) == workers[w].pc = "done" /\ workers[w].obj > 0

\* C14: under any interleaving of the workers both caches only gain entries,
\* every index entry stays a well-formed hash mapped to a listed entry with
\* that hash, two workers that resolved the same hash hold the same path, and
\* two workers that got the metadata of the same store path hold equal records.
C14_RacesOnlyRecompute ==
    /\ [](\A k \in DOMAIN _hashes_to_paths : IndexEntryOk(k))
    /\ [](\A w1, w2 \in Workers :
            /\ (HasPath(w1) /\ HasPath(w2) /\ workers[w1].hash = workers[w2].hash)
                  => workers[w1].path = workers[w2].path
            /\ (HasInfo(w1) /\ HasInfo(w2) /\ workers[w1].path = workers[w2].path)
                  => heap[workers[w1].obj] = heap[workers[w2].obj])
    /\ [][/\ DOMAIN _hashes_to_paths \subseteq DOMAIN _hashes_to_paths'
          /\ DOMAIN _paths_to_info \subseteq DOMAIN _paths_to_info']_vars

====
